---------------------------- MODULE Spec2Model ----------------------------
(***************************************************************************)
(* Model of the regex masking UDFs of impala-cpp-udf.                      *)
(*                                                                         *)
(*   src/RegexMaskingUdf.cc        mask(key, input, mask_val) with a       *)
(*                                 MaskState kept in the FunctionContext   *)
(*                                 (MaskPrepare / MaskClose).              *)
(*   src/CachedRegexMaskingUdf.cc  mask(key, input) with the static        *)
(*                                 RegexCache.                             *)
(*                                                                         *)
(* A string is a sequence of one-character strings.  A StringVal is a      *)
(* record [is_null, s].  A pointer to a MaskState is its index in the heap *)
(* (0 is nullptr).  A pointer to a compiled std::regex held by a cache     *)
(* entry is the number of the insertion that created it (0 is nullptr):    *)
(* the first regex stored under a key is 1, one that replaces it is 2.     *)
(***************************************************************************)
EXTENDS Integers, Sequences, FiniteSets, TLC

(***************************************************************************)
(* Bounds of the model.                                                    *)
(***************************************************************************)
\* worker threads that call mask concurrently
NThreads == 2
\* mask calls started in one behaviour
MaxCalls == 2
\* MaskState objects allocated in one behaviour
MaxObjs == 2
\* delete expressions run on one MaskState in one behaviour
MaxDeletes == 2
\* std::regex_error exceptions the regex constructor throws in one behaviour
MaxFaults == 1

Threads == 1 .. NThreads
\* FunctionContexts (execution scopes), each with its own FRAGMENT_LOCAL slot
Contexts == {"ctx1", "ctx2"}
\* the MaskState objects: pointers into the heap
Objs == 1 .. MaxObjs
NULLPTR == 0

FRAGMENT_LOCAL == "FRAGMENT_LOCAL"
THREAD_LOCAL == "THREAD_LOCAL"
FunctionStateScope == {FRAGMENT_LOCAL, THREAD_LOCAL}

(***************************************************************************)
(* Characters and strings.                                                 *)
(***************************************************************************)
Digit == {"0", "1", "2", "3", "4", "5", "6", "7", "8", "9"}
Lower == {"a", "b", "c", "d", "e", "f", "g", "h", "i", "j", "k", "l", "m",
          "n", "o", "p", "q", "r", "s", "t", "u", "v", "w", "x", "y", "z"}
Upper == {"A", "B", "C", "D", "E", "F", "G", "H", "I", "J", "K", "L", "M",
          "N", "O", "P", "Q", "R", "S", "T", "U", "V", "W", "X", "Y", "Z"}
Alpha == Lower \cup Upper

\* StringVal::null() and a non-null StringVal
NullVal == [is_null |-> TRUE, s |-> << >>]
StringVal(str) == [is_null |-> FALSE, s |-> str]

(***************************************************************************)
(* The pattern catalog.  A pattern source is a sequence of pieces, each a  *)
(* character class with a greedy quantifier {min,max} (unbounded: "+" or   *)
(* "{2,}").                                                                *)
(***************************************************************************)
Piece(cls, min, max, unbounded) ==
    [cls |-> cls, min |-> min, max |-> max, unbounded |-> unbounded]

\* R"(\d{4})"
PatternAPN == << Piece(Digit, 4, 4, FALSE) >>
\* R"([a-zA-Z0-9._%+-]+@[a-zA-Z0-9.-]+\.[a-zA-Z]{2,})"
PatternEMAIL ==
    << Piece(Alpha \cup Digit \cup {".", "_", "%", "+", "-"}, 1, 1, TRUE),
       Piece({"@"}, 1, 1, FALSE),
       Piece(Alpha \cup Digit \cup {".", "-"}, 1, 1, TRUE),
       Piece({"."}, 1, 1, FALSE),
       Piece(Alpha, 2, 2, TRUE) >>
\* R"(\d{6}-\d{7})"
PatternSSN == << Piece(Digit, 6, 6, FALSE),
                 Piece({"-"}, 1, 1, FALSE),
                 Piece(Digit, 7, 7, FALSE) >>

CatalogKeys == {"APN", "EMAIL", "SSN"}
\* MaskState::patterns and RegexCache::regex_patterns_ hold the same table
patterns == [k \in CatalogKeys |->
                CASE k = "APN" -> PatternAPN
                  [] k = "EMAIL" -> PatternEMAIL
                  [] k = "SSN" -> PatternSSN]

(***************************************************************************)
(* std::regex matching (ECMAScript grammar: greedy quantifiers, the first  *)
(* alternative that leads to a match wins, found by backtracking).         *)
(* Offsets count the characters before a position: offset i is before      *)
(* s[i+1].                                                                 *)
(***************************************************************************)
Min(a, b) == IF a < b THEN a ELSE b

\* the most repetitions of the piece's class the quantifier can take at i
Run(piece, s, i) ==
    LET cap == IF piece.unbounded THEN Len(s) - i
               ELSE Min(piece.max, Len(s) - i)
    IN  CHOOSE n \in 0 .. cap :
            /\ \A j \in 1 .. n : s[i + j] \in piece.cls
            /\ n = cap \/ s[i + n + 1] \notin piece.cls

RECURSIVE MatchPiece(_, _, _, _, _)
\* pieces k.. of re at offset i, piece k taking n characters, then n-1, ...
\* down to its minimum: the end offset of the match, or -1
MatchPiece(re, k, s, i, n) ==
    IF n < re[k].min THEN -1
    ELSE LET rest == IF k = Len(re) THEN i + n
                     ELSE MatchPiece(re, k + 1, s, i + n,
                                     Run(re[k + 1], s, i + n))
         IN  IF rest # -1 THEN rest
             ELSE MatchPiece(re, k, s, i, n - 1)

\* the end offset of the match of re that starts at offset i, or -1
MatchAt(re, s, i) == MatchPiece(re, 1, s, i, Run(re[1], s, i))

\* std::regex_search over [from, end): the leftmost match.  prefix_first is
\* what match_results::prefix().first is set to.
RegexSearch(re, s, from, prefix_first) ==
    LET starts == {i \in from .. Len(s) : MatchAt(re, s, i) # -1}
    IN  IF starts = {} THEN
            [found |-> FALSE, pos |-> 0, len |-> 0, prefix_first |-> prefix_first]
        ELSE LET i == CHOOSE x \in starts : \A y \in starts : x <= y
             IN  [found |-> TRUE, pos |-> i, len |-> MatchAt(re, s, i) - i,
                  prefix_first |-> prefix_first]

\* std::sregex_iterator it(begin, end, re)
IteratorBegin(re, s) == RegexSearch(re, s, 0, 0)

\* mutant: the search resumes one character after the match's start
IteratorNext_Overlap(re, s, it) ==
    RegexSearch(re, s, it.pos + 1, it.pos + it.len)

\* ++it after a non-empty match: the search resumes at the match's end, and
\* the new match's prefix starts there (no catalog pattern matches empty)
IteratorNext(re, s, it) ==
    RegexSearch(re, s, it.pos + it.len, it.pos + it.len)

\* mutant: one filler character is appended for a match, whatever its length
Fill_One(n, c) == IF n <= 0 THEN << >> ELSE << c >>

\* std::string(n, c) as appended by result.append(n, c)
RECURSIVE Fill(_, _)
Fill(n, c) == IF n <= 0 THEN << >> ELSE << c >> \o Fill(n - 1, c)

RECURSIVE ReplaceLoop3(_, _, _, _, _, _)
\* mutant: last_match is never moved on, so the final append copies the
\* input from its start
ReplaceLoop3_NoAdvance(re, s, mask_char, it, last_match, result) ==
    IF ~it.found THEN result \o SubSeq(s, last_match + 1, Len(s))
    ELSE ReplaceLoop3(re, s, mask_char, IteratorNext(re, s, it),
                      last_match,
                      result \o SubSeq(s, it.prefix_first + 1, it.pos)
                             \o Fill(it.len, mask_char))

\* the loop of the three-argument mask and the append after it
ReplaceLoop3(re, s, mask_char, it, last_match, result) ==
    IF ~it.found THEN result \o SubSeq(s, last_match + 1, Len(s))
    ELSE ReplaceLoop3(re, s, mask_char, IteratorNext(re, s, it),
                      it.pos + it.len,
                      result \o SubSeq(s, it.prefix_first + 1, it.pos)
                             \o Fill(it.len, mask_char))

RECURSIVE ReplaceLoop2(_, _, _, _, _)
\* the loop of the two-argument mask and the append after it
ReplaceLoop2(re, s, it, last, result) ==
    IF ~it.found THEN result \o SubSeq(s, last + 1, Len(s))
    ELSE ReplaceLoop2(re, s, IteratorNext(re, s, it),
                      it.pos + it.len,
                      result \o SubSeq(s, last + 1, it.pos)
                             \o Fill(it.len, "*"))

\* the matches the loop of a mask call visits: for (; it != end; ++it)
RECURSIVE MatchesFrom(_, _, _)
MatchesFrom(re, s, it) ==
    IF ~it.found THEN << >>
    ELSE << it >> \o MatchesFrom(re, s, IteratorNext(re, s, it))

\* mutant: an input without a match gives the empty string
Replace3_EmptyOnNoMatch(re, s, mask_char) ==
    IF ~IteratorBegin(re, s).found THEN << >>
    ELSE ReplaceLoop3(re, s, mask_char, IteratorBegin(re, s), 0, << >>)

Replace3(re, s, mask_char) ==
    ReplaceLoop3(re, s, mask_char, IteratorBegin(re, s), 0, << >>)
Replace2(re, s) == ReplaceLoop2(re, s, IteratorBegin(re, s), 0, << >>)

(***************************************************************************)
(* The arguments the calls of the model are made with.                     *)
(***************************************************************************)
\* keys passed to mask: a catalog key and one the catalog does not hold
ArgKeys == {"APN", "NOKEY"}
AllKeys == CatalogKeys \cup ArgKeys
NullKey == [is_null |-> TRUE, s |-> ""]
KeyVals == {NullKey} \cup {StringVal(k) : k \in ArgKeys}
\* "id 12345": holds a match of APN
InputText == << "i", "d", " ", "1", "2", "3", "4", "5" >>
InputVals == {NullVal, StringVal(InputText)}
\* mask_val: null, one character, no character, two characters
MaskVals == {NullVal, StringVal(<< "#" >>), StringVal(<< >>),
             StringVal(<< "#", "#" >>)}
\* the fixed filler of the two-argument mask
Asterisk == StringVal(<< "*" >>)

\* the argument lists of the calls: no null argument, or one null argument
\* beside the first key, the input text and a one-character mask
Args3 == {a \in KeyVals \X InputVals \X MaskVals :
             \/ ~a[1].is_null /\ ~a[2].is_null /\ ~a[3].is_null
             \/ a \in {<< NullKey, StringVal(InputText), StringVal(<< "#" >>) >>,
                       << StringVal("APN"), NullVal, StringVal(<< "#" >>) >>,
                       << StringVal("APN"), StringVal(InputText), NullVal >>}}
Args2 == {a \in KeyVals \X InputVals :
             \/ ~a[1].is_null /\ ~a[2].is_null
             \/ a \in {<< NullKey, StringVal(InputText) >>,
                       << StringVal("APN"), NullVal >>}}

(***************************************************************************)
(* State.                                                                  *)
(***************************************************************************)
VARIABLES
    slot,         \* slot[c]: the FRAGMENT_LOCAL function state of context c
    nobjs,        \* MaskState objects allocated so far (objects 1 .. nobjs)
    deleted,      \* deleted[o]: how many times delete ran on MaskState o
    mtx,          \* mtx[o]: the thread holding MaskState o's mtx, or 0
    regex_cache,  \* regex_cache[o][k]: MaskState o's entry for key k, or 0
    regex_map_,   \* RegexCache::regex_map_[k]: the static entry for k, or 0
    mutex_,       \* the thread holding RegexCache::mutex_, or 0
    th,           \* th[t]: the call thread t is in, or has returned from
    calls,        \* mask calls started
    faults,       \* std::regex_error exceptions thrown
    crashed,      \* undefined behaviour ended the process
                  \* (th[t].ub: the undefined behaviour the call of t ran)
    lastHook      \* history: the host's last call of MaskPrepare or
                  \* MaskClose, recorded in the behaviours that start
                  \* with the record switched on

vars == << slot, nobjs, deleted, mtx, regex_cache, regex_map_, mutex_, th,
           calls, faults, crashed, lastHook >>

heapVars == << nobjs, deleted, mtx, regex_cache >>
staticVars == << regex_map_, mutex_ >>

NoError == ""
NotPreparedError == "Masking UDF state not prepared."
RegexError == "regex_error"

\* a thread that has made no call yet
Idle == [pc |-> "idle", variant |-> 0, ctx |-> "ctx1", key |-> NullKey,
         input |-> NullVal, mask_val |-> NullVal, state |-> NULLPTR,
         pattern |-> NULLPTR, result |-> NullVal, err |-> NoError,
         alloc |-> "none", ub |-> "none"]

\* the frame of a call that has just been entered
Frame(variant, c, key, input, mask_val) ==
    [Idle EXCEPT !.pc = "entered", !.variant = variant, !.ctx = c,
                 !.key = key, !.input = input, !.mask_val = mask_val]

\* return: the call's result and what it passed to SetError
Return(frame, result, err) ==
    [frame EXCEPT !.pc = "done", !.result = result, !.err = err]

\* the record of hook calls: switched off, and switched on with no call yet
HookLogOff == [op |-> "off", ctx |-> "ctx1", scope |-> FRAGMENT_LOCAL,
               state |-> NULLPTR]
NoHook == [HookLogOff EXCEPT !.op = "none"]

\* a call of hook op on context c with scope, and the FRAGMENT_LOCAL function
\* state of c when it was made
HookCall(op, c, scope) ==
    [op |-> op, ctx |-> c, scope |-> scope, state |-> slot[c]]

\* lastHook after the hook call
Logged(call) == IF lastHook = HookLogOff THEN lastHook ELSE call

\* no MaskState, empty caches, free mutexes, no call made
InitState ==
    /\ slot = [c \in Contexts |-> NULLPTR]
    /\ nobjs = 0
    /\ deleted = [o \in Objs |-> 0]
    /\ mtx = [o \in Objs |-> 0]
    /\ regex_cache = [o \in Objs |-> [k \in AllKeys |-> NULLPTR]]
    /\ regex_map_ = [k \in AllKeys |-> NULLPTR]
    /\ mutex_ = 0
    /\ th = [t \in Threads |-> Idle]
    /\ calls = 0
    /\ faults = 0
    /\ crashed = FALSE

Init == InitState /\ lastHook = HookLogOff

\* thread t is inside a three-argument mask call on context c
InFlight3(t, c) ==
    /\ th[t].variant = 3
    /\ th[t].ctx = c
    /\ th[t].pc \in {"lock", "compile", "apply"}

(***************************************************************************)
(* The lifecycle hooks.  The host runs them before the first and after the *)
(* last call of the fragment, so never while a call on the context is in   *)
(* flight; how often it runs them is left open.                            *)
(***************************************************************************)
\* mutant: the scope is not looked at
MaskPrepare_AnyScope(c, scope) ==
    /\ ~crashed
    /\ \A t \in Threads : ~InFlight3(t, c)
    /\ nobjs < MaxObjs
    /\ nobjs' = nobjs + 1
    /\ slot' = [slot EXCEPT ![c] = nobjs + 1]
    /\ lastHook' = Logged(HookCall("MaskPrepare", c, scope))
    /\ UNCHANGED << deleted, mtx, regex_cache, staticVars, th, calls, faults,
                    crashed >>

MaskPrepare(c, scope) ==
    /\ ~crashed
    /\ \A t \in Threads : ~InFlight3(t, c)
    /\ IF scope # FRAGMENT_LOCAL
       THEN UNCHANGED << slot, nobjs >>
       ELSE \* new MaskState(); SetFunctionState(scope, state)
            /\ nobjs < MaxObjs
            /\ nobjs' = nobjs + 1
            /\ slot' = [slot EXCEPT ![c] = nobjs + 1]
    /\ lastHook' = Logged(HookCall("MaskPrepare", c, scope))
    /\ UNCHANGED << deleted, mtx, regex_cache, staticVars, th, calls, faults,
                    crashed >>

\* mutant: the state is used (state->regex_cache.clear()) before it is
\* tested for nullptr
MaskClose_UseBeforeTest(c, scope) ==
    /\ ~crashed
    /\ \A t \in Threads : ~InFlight3(t, c)
    /\ IF scope # FRAGMENT_LOCAL
       THEN UNCHANGED << deleted, crashed >>
       ELSE IF slot[c] = NULLPTR
       THEN UNCHANGED deleted /\ crashed' \in BOOLEAN
       ELSE /\ deleted[slot[c]] < MaxDeletes
            /\ deleted' = [deleted EXCEPT ![slot[c]] = @ + 1]
            /\ IF deleted[slot[c]] = 0
               THEN UNCHANGED crashed
               ELSE crashed' \in BOOLEAN
    /\ lastHook' = Logged(HookCall("MaskClose", c, scope))
    /\ UNCHANGED << slot, nobjs, mtx, regex_cache, staticVars, th, calls,
                    faults >>

MaskClose(c, scope) ==
    /\ ~crashed
    /\ \A t \in Threads : ~InFlight3(t, c)
    /\ IF scope # FRAGMENT_LOCAL \/ slot[c] = NULLPTR
       THEN UNCHANGED << deleted, crashed >>
       ELSE \* delete reinterpret_cast<MaskState*>(state_ptr)
            /\ deleted[slot[c]] < MaxDeletes
            /\ deleted' = [deleted EXCEPT ![slot[c]] = @ + 1]
            /\ IF deleted[slot[c]] = 0
               THEN UNCHANGED crashed
               ELSE \* the object was deleted before: a double delete,
                    \* which crashes or goes on
                    crashed' \in BOOLEAN
    /\ lastHook' = Logged(HookCall("MaskClose", c, scope))
    /\ UNCHANGED << slot, nobjs, mtx, regex_cache, staticVars, th, calls,
                    faults >>

(***************************************************************************)
(* Steps shared by the two caches.                                         *)
(***************************************************************************)
\* mutant: the lookup and the insertion run without the lock_guard
CanLock_NoLock(holder) == TRUE

\* std::lock_guard's constructor returns once no thread holds the mutex
CanLock(holder) == holder = 0

\* mutant: a key the catalog does not hold is compiled like any other
InCatalog_Any(k) == TRUE

\* patterns.find(key) != patterns.end()
InCatalog(k) == k \in DOMAIN patterns

\* the map after regex_cache[key] = std::move(compiled): the entry holds a
\* new regex (the one it held, if any, is destroyed)
Insert(map, k) == [map EXCEPT ![k] = @ + 1]

\* mutant: the catch stores a failure marker under the key
AfterThrow_Marker(map, k) == [map EXCEPT ![k] = -1]

\* the map after the regex constructor threw: the assignment never ran
AfterThrow(map, k) == map

\* the regex constructor throws std::regex_error or returns
CompileOutcomes == IF faults < MaxFaults THEN {"ok", "throw"} ELSE {"ok"}

\* what Allocate may return: nullptr or a buffer
Buffers == {NULLPTR, 1}

(***************************************************************************)
(* mask(context, key, input, mask_val) of RegexMaskingUdf.cc.              *)
(***************************************************************************)
\* mutant: the null check leaves out mask_val
AnyNull3_NoMask(key, input, mask_val) == key.is_null \/ input.is_null

AnyNull3(key, input, mask_val) ==
    key.is_null \/ input.is_null \/ mask_val.is_null

\* entry: the null check and the read of the function state
Mask3Call(t, c, key, input, mask_val) ==
    /\ ~crashed
    /\ calls < MaxCalls
    /\ th[t].pc \in {"idle", "done"}
    /\ calls' = calls + 1
    /\ LET frame == Frame(3, c, key, input, mask_val)
       IN  IF AnyNull3(key, input, mask_val) THEN
               /\ th' = [th EXCEPT ![t] = Return(frame, NullVal, NoError)]
               /\ UNCHANGED crashed
           ELSE IF slot[c] = NULLPTR THEN
               /\ th' = [th EXCEPT ![t] =
                            Return(frame, NullVal, NotPreparedError)]
               /\ UNCHANGED crashed
           ELSE IF deleted[slot[c]] > 0 THEN
               \* the state pointer dangles: state->mtx is a use after free,
               \* which crashes or goes on with the stale object
               /\ crashed' \in BOOLEAN
               /\ th' = [th EXCEPT ![t] =
                            [frame EXCEPT !.pc = "lock", !.state = slot[c],
                                          !.ub = "use_after_free"]]
           ELSE
               /\ th' = [th EXCEPT ![t] =
                            [frame EXCEPT !.pc = "lock", !.state = slot[c]]]
               /\ UNCHANGED crashed
    /\ UNCHANGED << slot, heapVars, staticVars, faults, lastHook >>

\* the lock_guard and the lookups under it: regex_cache.find(key_str), and
\* patterns.find(key_str) on a miss
Lock3(t) ==
    /\ ~crashed
    /\ th[t].variant = 3 /\ th[t].pc = "lock"
    /\ CanLock(mtx[th[t].state])
    /\ LET o == th[t].state
           k == th[t].key.s
       IN  IF regex_cache[o][k] # NULLPTR THEN
               \* hit: pattern = it->second.get(); the block ends
               /\ th' = [th EXCEPT ![t].pattern = regex_cache[o][k],
                                   ![t].pc = "apply"]
               /\ UNCHANGED mtx
           ELSE IF ~InCatalog(k) THEN
               \* unknown key: pattern stays nullptr; the block ends
               /\ th' = [th EXCEPT ![t].pc = "apply"]
               /\ UNCHANGED mtx
           ELSE
               \* the lock is held on into the try block
               /\ th' = [th EXCEPT ![t].pc = "compile"]
               /\ mtx' = [mtx EXCEPT ![o] = t]
    /\ UNCHANGED << slot, nobjs, deleted, regex_cache, staticVars, calls,
                    faults, crashed, lastHook >>

\* mutant: the early return of the catch leaves the mutex locked
Compile3_KeepsLockOnThrow(t) ==
    /\ ~crashed
    /\ th[t].variant = 3 /\ th[t].pc = "compile"
    /\ LET o == th[t].state
           k == th[t].key.s
       IN  \E outcome \in CompileOutcomes :
               IF outcome = "ok" THEN
                   /\ regex_cache' = [regex_cache EXCEPT ![o] = Insert(@, k)]
                   /\ th' = [th EXCEPT
                                ![t].pattern = Insert(regex_cache[o], k)[k],
                                ![t].pc = "apply"]
                   /\ mtx' = [mtx EXCEPT ![o] = 0]
                   /\ UNCHANGED faults
               ELSE
                   /\ regex_cache' = [regex_cache EXCEPT ![o] = AfterThrow(@, k)]
                   /\ th' = [th EXCEPT ![t] = Return(@, NullVal, RegexError)]
                   /\ faults' = faults + 1
                   /\ UNCHANGED mtx
    /\ UNCHANGED << slot, nobjs, deleted, staticVars, calls, crashed,
                    lastHook >>

\* the try block: new std::regex(...), the insertion, or the catch; the
\* lock_guard is destroyed on both ways out
Compile3(t) ==
    /\ ~crashed
    /\ th[t].variant = 3 /\ th[t].pc = "compile"
    /\ LET o == th[t].state
           k == th[t].key.s
       IN  /\ \E outcome \in CompileOutcomes :
                  IF outcome = "ok" THEN
                      /\ regex_cache' =
                             [regex_cache EXCEPT ![o] = Insert(@, k)]
                      /\ th' = [th EXCEPT
                                   ![t].pattern = Insert(regex_cache[o], k)[k],
                                   ![t].pc = "apply"]
                      /\ UNCHANGED faults
                  ELSE
                      \* catch: SetError(e.what()); return StringVal::null()
                      /\ regex_cache' =
                             [regex_cache EXCEPT ![o] = AfterThrow(@, k)]
                      /\ th' = [th EXCEPT
                                   ![t] = Return(@, NullVal, RegexError)]
                      /\ faults' = faults + 1
           /\ mtx' = [mtx EXCEPT ![o] = 0]
    /\ UNCHANGED << slot, nobjs, deleted, staticVars, calls, crashed,
                    lastHook >>

\* MakeStringVal(context, s): buffer is what context->Allocate returned
MakeStringVal(s, buffer) ==
    IF s = << >> THEN StringVal(<< >>)
    ELSE IF buffer = NULLPTR THEN NullVal
    ELSE StringVal(s)

\* the pointer a call took from the cache still points to a live regex
Live3(o, k, pattern) == deleted[o] = 0 /\ regex_cache[o][k] = pattern

\* after the block: the pattern check, the mask length check, the
\* replacement loop and MakeStringVal
Apply3(t) ==
    /\ ~crashed
    /\ th[t].variant = 3 /\ th[t].pc = "apply"
    /\ LET f == th[t]
       IN  IF f.pattern = NULLPTR THEN
               /\ th' = [th EXCEPT ![t] = Return(f, NullVal, f.err)]
               /\ UNCHANGED crashed
           ELSE IF Len(f.mask_val.s) # 1 THEN
               /\ th' = [th EXCEPT ![t] = Return(f, NullVal, f.err)]
               /\ UNCHANGED crashed
           ELSE
               /\ \E buffer \in Buffers :
                      th' = [th EXCEPT ![t] =
                                [Return(f,
                                        MakeStringVal(
                                            Replace3(patterns[f.key.s],
                                                     f.input.s,
                                                     f.mask_val.s[1]),
                                            buffer),
                                        f.err)
                                 EXCEPT !.alloc = IF buffer = NULLPTR
                                                  THEN "null" ELSE "ok",
                                        !.ub = IF Live3(f.state, f.key.s,
                                                        f.pattern)
                                               THEN @ ELSE "dangling_regex"]]
               /\ IF Live3(f.state, f.key.s, f.pattern)
                  THEN UNCHANGED crashed
                  ELSE \* *pattern reads a destroyed regex
                       crashed' \in BOOLEAN
    /\ UNCHANGED << slot, heapVars, staticVars, calls, faults, lastHook >>

(***************************************************************************)
(* mask(context, key, input) and RegexCache::GetRegex of                   *)
(* CachedRegexMaskingUdf.cc.  The cache is a static member: one map and    *)
(* one mutex for the process, whatever the context.                        *)
(***************************************************************************)
AnyNull2(key, input) == key.is_null \/ input.is_null

\* entry: the null check, then the call of GetRegex
Mask2Call(t, c, key, input) ==
    /\ ~crashed
    /\ calls < MaxCalls
    /\ th[t].pc \in {"idle", "done"}
    /\ calls' = calls + 1
    /\ LET frame == Frame(2, c, key, input, Asterisk)
       IN  IF AnyNull2(key, input)
           THEN th' = [th EXCEPT ![t] = Return(frame, NullVal, NoError)]
           ELSE th' = [th EXCEPT ![t] = [frame EXCEPT !.pc = "lock"]]
    /\ UNCHANGED << slot, heapVars, staticVars, faults, crashed, lastHook >>

\* GetRegex: the lock_guard and the lookups under it: regex_map_.find(key),
\* and regex_patterns_.find(key) on a miss
Lock2(t) ==
    /\ ~crashed
    /\ th[t].variant = 2 /\ th[t].pc = "lock"
    /\ CanLock(mutex_)
    /\ LET k == th[t].key.s
       IN  IF regex_map_[k] # NULLPTR THEN
               /\ th' = [th EXCEPT ![t].pattern = regex_map_[k],
                                   ![t].pc = "apply"]
               /\ UNCHANGED mutex_
           ELSE IF ~InCatalog(k) THEN
               /\ th' = [th EXCEPT ![t].pc = "apply"]
               /\ UNCHANGED mutex_
           ELSE
               /\ th' = [th EXCEPT ![t].pc = "compile"]
               /\ mutex_' = t
    /\ UNCHANGED << slot, heapVars, regex_map_, calls, faults, crashed,
                    lastHook >>

\* the try block of GetRegex: the catch returns nullptr and reports nothing
Compile2(t) ==
    /\ ~crashed
    /\ th[t].variant = 2 /\ th[t].pc = "compile"
    /\ LET k == th[t].key.s
       IN  \E outcome \in CompileOutcomes :
               IF outcome = "ok" THEN
                   /\ regex_map_' = Insert(regex_map_, k)
                   /\ th' = [th EXCEPT ![t].pattern = Insert(regex_map_, k)[k],
                                       ![t].pc = "apply"]
                   /\ UNCHANGED faults
               ELSE
                   /\ regex_map_' = AfterThrow(regex_map_, k)
                   /\ th' = [th EXCEPT ![t].pc = "apply"]
                   /\ faults' = faults + 1
    /\ mutex_' = 0
    /\ UNCHANGED << slot, heapVars, calls, crashed, lastHook >>

\* StringVal out(context->Allocate(result.size())) and the copy into it
MakeOut(s, buffer) == IF buffer = NULLPTR THEN NullVal ELSE StringVal(s)

\* back in mask: the pattern check, the replacement loop and the copy
Apply2(t) ==
    /\ ~crashed
    /\ th[t].variant = 2 /\ th[t].pc = "apply"
    /\ LET f == th[t]
       IN  IF f.pattern = NULLPTR THEN
               /\ th' = [th EXCEPT ![t] = Return(f, NullVal, f.err)]
               /\ UNCHANGED crashed
           ELSE
               /\ \E buffer \in Buffers :
                      th' = [th EXCEPT ![t] =
                                [Return(f,
                                        MakeOut(Replace2(patterns[f.key.s],
                                                         f.input.s),
                                                buffer),
                                        f.err)
                                 EXCEPT !.alloc = IF buffer = NULLPTR
                                                  THEN "null" ELSE "ok",
                                        !.ub = IF regex_map_[f.key.s] = f.pattern
                                               THEN @ ELSE "dangling_regex"]]
               /\ IF regex_map_[f.key.s] = f.pattern
                  THEN UNCHANGED crashed
                  ELSE \* *pattern reads a destroyed regex
                       crashed' \in BOOLEAN
    /\ UNCHANGED << slot, heapVars, staticVars, calls, faults, lastHook >>

(***************************************************************************)
(* The specification.                                                      *)
(***************************************************************************)
Next ==
    \/ \E c \in Contexts, scope \in FunctionStateScope : MaskPrepare(c, scope)
    \/ \E c \in Contexts, scope \in FunctionStateScope : MaskClose(c, scope)
    \/ \E t \in Threads, c \in Contexts, a \in Args3 :
          Mask3Call(t, c, a[1], a[2], a[3])
    \/ \E t \in Threads, c \in Contexts, a \in Args2 :
          Mask2Call(t, c, a[1], a[2])
    \/ \E t \in Threads : Lock3(t)
    \/ \E t \in Threads : Compile3(t)
    \/ \E t \in Threads : Apply3(t)
    \/ \E t \in Threads : Lock2(t)
    \/ \E t \in Threads : Compile2(t)
    \/ \E t \in Threads : Apply2(t)

Spec == Init /\ [][Next]_vars

(***************************************************************************)
(* The masking engine on its own: one prepared context, one call of        *)
(* thread 1 with a catalog key, a text and a one-character filler, and     *)
(* then a call of thread 2 that masks the first call's output again with   *)
(* the same key and filler (mask(key, mask(key, input, c), c)).            *)
(***************************************************************************)
\* the characters of the short texts: a digit, a letter and the three
\* punctuation characters of the catalog's patterns
EngineAlphabet == {"1", "a", "@", ".", "-"}
\* the length of the longest short text
MaxLen == 3
\* every text over EngineAlphabet of at most MaxLen characters
ShortTexts == UNION {[1 .. n -> EngineAlphabet] : n \in 0 .. MaxLen}

Digits10 == << "0", "1", "2", "3", "4", "5", "6", "7", "8", "9" >>
\* the length of the longest run of digits
MaxRun == 9
\* "1234..." : a text of n consecutive digits
DigitRun(n) == [i \in 1 .. n |-> Digits10[(i % 10) + 1]]

\* "codes 1234 5678"
TextCodes ==
    << "c", "o", "d", "e", "s", " ", "1", "2", "3", "4", " ", "5", "6",
    "7", "8" >>
\* "a@b.cc@d.ee"
TextTwoAts ==
    << "a", "@", "b", ".", "c", "c", "@", "d", ".", "e", "e" >>
\* "contact: a.b@example.com now"
TextContact ==
    << "c", "o", "n", "t", "a", "c", "t", ":", " ", "a", ".", "b", "@",
    "e", "x", "a", "m", "p", "l", "e", ".", "c", "o", "m", " ", "n", "o",
    "w" >>
\* "my ssn is 123456-1234567 thanks"
TextSsn ==
    << "m", "y", " ", "s", "s", "n", " ", "i", "s", " ", "1", "2", "3",
    "4", "5", "6", "-", "1", "2", "3", "4", "5", "6", "7", " ", "t", "h",
    "a", "n", "k", "s" >>
\* "123456-1234567-1234567"
TextSsnChain ==
    << "1", "2", "3", "4", "5", "6", "-", "1", "2", "3", "4", "5", "6",
    "7", "-", "1", "2", "3", "4", "5", "6", "7" >>

EngineTexts ==
    ShortTexts \cup {DigitRun(n) : n \in 4 .. MaxRun}
        \cup {TextCodes, TextTwoAts, TextContact, TextSsn, TextSsnChain}
\* the fillers of the three-argument calls
EngineFillers == {"*", "#", "X", ".", "_", "-", "@"}

\* the host prepares the context once, before the first call
EnginePrepare ==
    /\ slot["ctx1"] = NULLPTR
    /\ MaskPrepare("ctx1", FRAGMENT_LOCAL)

EngineCall3 ==
    /\ th[1].pc = "idle"
    /\ slot["ctx1"] # NULLPTR
    /\ \E k \in CatalogKeys, s \in EngineTexts, c \in EngineFillers :
           Mask3Call(1, "ctx1", StringVal(k), StringVal(s), StringVal(<< c >>))

EngineCall2 ==
    /\ th[1].pc = "idle"
    /\ slot["ctx1"] # NULLPTR
    /\ \E k \in CatalogKeys, s \in EngineTexts :
           Mask2Call(1, "ctx1", StringVal(k), StringVal(s))

\* thread 2 calls mask on the string thread 1's call returned
Remask ==
    /\ th[1].pc = "done"
    /\ ~th[1].result.is_null
    /\ th[2].pc = "idle"
    /\ IF th[1].variant = 3
       THEN Mask3Call(2, th[1].ctx, th[1].key, th[1].result, th[1].mask_val)
       ELSE Mask2Call(2, th[1].ctx, th[1].key, th[1].result)

EngineNext ==
    \/ EnginePrepare
    \/ EngineCall3
    \/ EngineCall2
    \/ Remask
    \/ \E t \in Threads : Lock3(t)
    \/ \E t \in Threads : Compile3(t)
    \/ \E t \in Threads : Apply3(t)
    \/ \E t \in Threads : Lock2(t)
    \/ \E t \in Threads : Compile2(t)
    \/ \E t \in Threads : Apply2(t)

SpecEngine == Init /\ [][EngineNext]_vars

(***************************************************************************)
(* Concurrent calls on one prepared context under fair scheduling: a       *)
(* thread that can take its next step inside mask does take it.  The host  *)
(* prepares the context once; when and whether a thread calls mask is left *)
(* open.                                                                   *)
(***************************************************************************)
\* the text the calls are made with, "id": what a call does with the mutex
\* does not depend on the text
LiveText == << "i", "d" >>

LiveCall3 ==
    /\ slot["ctx1"] # NULLPTR
    /\ \E t \in Threads, k \in ArgKeys :
           Mask3Call(t, "ctx1", StringVal(k), StringVal(LiveText),
                     StringVal(<< "#" >>))

LiveCall2 ==
    /\ slot["ctx1"] # NULLPTR
    /\ \E t \in Threads, k \in ArgKeys :
           Mask2Call(t, "ctx1", StringVal(k), StringVal(LiveText))

LiveNext ==
    \/ EnginePrepare
    \/ LiveCall3
    \/ LiveCall2
    \/ \E t \in Threads : Lock3(t)
    \/ \E t \in Threads : Compile3(t)
    \/ \E t \in Threads : Apply3(t)
    \/ \E t \in Threads : Lock2(t)
    \/ \E t \in Threads : Compile2(t)
    \/ \E t \in Threads : Apply2(t)

\* the next step of thread t inside the call it is in
Step(t) ==
    \/ Lock3(t)
    \/ Compile3(t)
    \/ Apply3(t)
    \/ Lock2(t)
    \/ Compile2(t)
    \/ Apply2(t)

\* a running thread goes on running: the next step of its call is taken if
\* it stays possible (a step at the lock_guard is possible while the mutex
\* is free)
Fairness == \A t \in Threads : WF_vars(Step(t))

SpecLive == Init /\ [][LiveNext]_vars /\ Fairness

(***************************************************************************)
(* The lifecycle hooks with the record of hook calls switched on: the host *)
(* runs MaskPrepare and MaskClose in any order and with any scope, and     *)
(* thread 1 makes three-argument calls with key APN.                       *)
(***************************************************************************)
HooksInit == InitState /\ lastHook = NoHook

HooksCall ==
    \E c \in Contexts :
        Mask3Call(1, c, StringVal("APN"), StringVal(InputText),
                  StringVal(<< "#" >>))

HooksNext ==
    \/ \E c \in Contexts, scope \in FunctionStateScope : MaskPrepare(c, scope)
    \/ \E c \in Contexts, scope \in FunctionStateScope : MaskClose(c, scope)
    \/ HooksCall
    \/ Lock3(1)
    \/ Compile3(1)
    \/ Apply3(1)

SpecHooks == HooksInit /\ [][HooksNext]_vars

(***************************************************************************)
(* Definitions the properties below are stated with.                       *)
(***************************************************************************)
InFlightPcs == {"lock", "compile", "apply"}

\* the arguments of the call in frame f that may be null
NoNullArg(f) ==
    /\ ~f.key.is_null
    /\ ~f.input.is_null
    /\ f.variant = 3 => ~f.mask_val.is_null

KnownKey(f) == f.key.s \in CatalogKeys

\* the cache the call in frame f works on
CacheUsedBy(f) == IF f.variant = 3 THEN regex_cache[f.state] ELSE regex_map_

\* the call in frame f found a cache that was there: the static one, or a
\* MaskState that had not been deleted
FoundCache(f) == f.variant = 2 \/ (f.state # NULLPTR /\ f.ub = "none")

\* the cache of frame f is there now
CacheAlive(f) == f.variant = 2 \/ (f.state # NULLPTR /\ deleted[f.state] = 0)

\* the leftmost, non-overlapping matches of re in s at or after offset from,
\* as the positions lo .. hi they cover
RECURSIVE Spans(_, _, _)
Spans(re, s, from) ==
    LET starts == {i \in from .. Len(s) : MatchAt(re, s, i) # -1}
    IN  IF starts = {} THEN {}
        ELSE LET i == CHOOSE x \in starts : \A y \in starts : x <= y
             IN  {[lo |-> i + 1, hi |-> MatchAt(re, s, i)]}
                     \cup Spans(re, s, MatchAt(re, s, i))

\* s with every position inside a match replaced by filler
MaskedText(re, s, filler) ==
    [i \in 1 .. Len(s) |->
        IF \E sp \in Spans(re, s, 0) : sp.lo <= i /\ i <= sp.hi
        THEN filler ELSE s[i]]

\* the masked output the call in frame f is to return
Expected(f) ==
    StringVal(MaskedText(patterns[f.key.s], f.input.s, f.mask_val.s[1]))

(***************************************************************************)
(* C1.  Threads that call mask concurrently with the same known key: the   *)
(* pattern is compiled and inserted once in a cache (an entry is never     *)
(* inserted a second time), and, when the regex constructor does not       *)
(* throw, every call that found its cache resolves the first and only      *)
(* matcher of the key, leaves exactly that matcher in the cache, and       *)
(* returns the masked output if its filler is one character and its        *)
(* result buffer was allocated.                                            *)
(***************************************************************************)
C1_CompiledOncePerKey ==
    /\ \A o \in Objs, k \in AllKeys : regex_cache[o][k] <= 1
    /\ \A k \in AllKeys : regex_map_[k] <= 1
    /\ faults = 0 =>
           \A t \in Threads :
               LET f == th[t]
               IN  (f.pc = "done" /\ NoNullArg(f) /\ KnownKey(f)
                        /\ FoundCache(f)) =>
                       /\ f.pattern = 1
                       /\ CacheAlive(f) => CacheUsedBy(f)[f.key.s] = 1
                       /\ (Len(f.mask_val.s) = 1 /\ f.alloc = "ok") =>
                              f.result = Expected(f)

\* two overlapping three-argument calls on one MaskState with the same key
\* have both resolved the one matcher, and one of them has returned the
\* masked output while the other is still in the call
C1_Witness ==
    /\ th[1].variant = 3 /\ th[2].variant = 3
    /\ th[1].state # NULLPTR /\ th[1].state = th[2].state
    /\ th[1].key = StringVal("APN") /\ th[2].key = StringVal("APN")
    /\ th[1].pc = "done" /\ th[2].pc = "apply"
    /\ th[1].pattern = 1 /\ th[2].pattern = 1
    /\ th[1].result = StringVal(<< "i", "d", " ", "#", "#", "#", "#", "5" >>)
    /\ regex_cache[th[1].state]["APN"] = 1
    /\ faults = 0

(***************************************************************************)
(* C2.  A three-argument mask call with no null argument that arrives      *)
(* while the scope is NotPrepared or Closed returns null with a            *)
(* diagnostic and never dereferences a missing or deleted MaskState: no    *)
(* call is ever inside the body with a deleted MaskState as its state.     *)
(***************************************************************************)
C2_UnpreparedOrClosedFailsCleanly ==
    \A t \in Threads :
        LET f == th[t]
        IN  (f.variant = 3 /\ NoNullArg(f)) =>
                /\ (f.pc = "done" /\ f.state = NULLPTR) =>
                       (f.result = NullVal /\ f.err # NoError)
                /\ f.ub # "use_after_free"
                /\ ~(f.pc \in InFlightPcs /\ deleted[f.state] > 0)

(***************************************************************************)
(* C3.  Every MaskState that was created is destroyed exactly once: none   *)
(* is deleted twice, and one that is not deleted yet is still the state of *)
(* some context, so that the teardown of its scope can delete it.          *)
(***************************************************************************)
C3_DestroyedExactlyOnce ==
    \A o \in 1 .. nobjs :
        /\ deleted[o] <= 1
        /\ deleted[o] = 0 => \E c \in Contexts : slot[c] = o

(***************************************************************************)
(* C4.  MaskPrepare with FRAGMENT_LOCAL on a context that is Prepared      *)
(* (its state is a MaskState that is not deleted) leaves the state handle  *)
(* and the cache contents as they are and allocates no MaskState.          *)
(***************************************************************************)
C4_PrepareIsIdempotent ==
    [][\A c \in Contexts :
          (/\ slot[c] # NULLPTR
           /\ deleted[slot[c]] = 0
           /\ MaskPrepare(c, FRAGMENT_LOCAL)) =>
              (/\ slot'[c] = slot[c]
               /\ nobjs' = nobjs
               /\ regex_cache' = regex_cache)]_vars

(***************************************************************************)
(* C5.  A call in which the regex constructor threw (a call with no null   *)
(* argument and a catalog key that found its cache and came back without   *)
(* a matcher) returns null and has passed a diagnostic to SetError, in the *)
(* three-argument and in the two-argument mask.                            *)
(***************************************************************************)
C5_CompileFailureIsReported ==
    \A t \in Threads :
        LET f == th[t]
        IN  (f.pc = "done" /\ NoNullArg(f) /\ KnownKey(f) /\ FoundCache(f)
                 /\ f.pattern = NULLPTR) =>
                (f.result = NullVal /\ f.err # NoError)

(***************************************************************************)
(* C6.  A compile that throws leaves both caches as they were (no entry,   *)
(* no failure marker); a call that then finds no entry for a catalog key   *)
(* goes on to compile it again; and a call that does resolve a matcher     *)
(* finds it inserted in its cache and returns the masked output (if its    *)
(* filler is one character and its result buffer was allocated).           *)
(***************************************************************************)
C6_FailedCompileIsNotCached ==
    /\ [][\A t \in Threads :
             (th[t].pc = "compile" /\ th'[t].pc # "compile"
                  /\ faults' = faults + 1) =>
                 (regex_cache' = regex_cache /\ regex_map_' = regex_map_)]_vars
    /\ [][\A t \in Threads :
             (th[t].pc = "lock" /\ th'[t].pc # "lock" /\ KnownKey(th[t])
                  /\ CacheUsedBy(th[t])[th[t].key.s] = NULLPTR) =>
                 th'[t].pc = "compile"]_vars
    /\ [](\A t \in Threads :
             LET f == th[t]
             IN  (f.pc = "done" /\ f.pattern # NULLPTR /\ FoundCache(f)) =>
                     /\ CacheAlive(f) => CacheUsedBy(f)[f.key.s] = f.pattern
                     /\ (Len(f.mask_val.s) = 1 /\ f.alloc = "ok") =>
                            f.result = Expected(f))

\* a three-argument call failed to compile APN and reported it, the cache
\* kept no entry, and the next call on the same MaskState compiled APN,
\* inserted it and returned the masked output
C6_Witness ==
    /\ faults = 1
    /\ th[1].variant = 3 /\ th[2].variant = 3
    /\ th[1].state # NULLPTR /\ th[1].state = th[2].state
    /\ th[1].key = StringVal("APN") /\ th[2].key = StringVal("APN")
    /\ th[1].pc = "done" /\ th[1].err = RegexError /\ th[1].result = NullVal
    /\ th[1].pattern = NULLPTR
    /\ th[2].pc = "done" /\ th[2].pattern = 1
    /\ th[2].result = StringVal(<< "i", "d", " ", "#", "#", "#", "#", "5" >>)
    /\ regex_cache[th[2].state]["APN"] = 1

(***************************************************************************)
(* C7.  The cache a scope's calls work on belongs to that scope: a         *)
(* compile-and-insert by a call on one context leaves the cache that the   *)
(* calls of the same mask variant on every other context read as it was,   *)
(* and MaskClose on one context leaves the MaskState of every other        *)
(* context, its entries and its being alive, as they were.                 *)
(***************************************************************************)
\* the cache a three-argument call on context c reads
Seen3(c) == IF slot[c] = NULLPTR THEN [k \in AllKeys |-> NULLPTR]
            ELSE regex_cache[slot[c]]
\* the cache a two-argument call on context c reads
Seen2(c) == regex_map_

C7_CacheIsOwnedByScope ==
    /\ [][\A t \in Threads, d \in Contexts :
             (th[t].pc = "compile" /\ th'[t].pc # "compile"
                  /\ d # th[t].ctx) =>
                 /\ th[t].variant = 3 => Seen3(d)' = Seen3(d)
                 /\ th[t].variant = 2 => Seen2(d)' = Seen2(d)]_vars
    /\ [][\A c \in Contexts, d \in Contexts :
             (MaskClose(c, FRAGMENT_LOCAL) /\ d # c) =>
                 /\ Seen3(d)' = Seen3(d)
                 /\ slot[d] # NULLPTR =>
                        deleted'[slot[d]] = deleted[slot[d]]]_vars

(***************************************************************************)
(* C8.  A three-argument mask call whose mask_val is not null and not one  *)
(* character long returns null and passes nothing to SetError, whatever    *)
(* the key and the state of the scope.                                     *)
(***************************************************************************)
C8_BadMaskLengthIsSilent ==
    \A t \in Threads :
        LET f == th[t]
        IN  (f.variant = 3 /\ f.pc = "done" /\ NoNullArg(f)
                 /\ Len(f.mask_val.s) # 1) =>
                (f.result = NullVal /\ f.err = NoError)

(***************************************************************************)
(* C9.  A mask call with a null argument returns null at once, whatever    *)
(* the state of the scope: it passes nothing to SetError, never reads the  *)
(* function state, takes no lock, resolves no pattern and allocates        *)
(* nothing.                                                                *)
(***************************************************************************)
C9_NullArgumentIsSilent ==
    \A t \in Threads :
        LET f == th[t]
        IN  (f.pc # "idle" /\ ~NoNullArg(f)) =>
                /\ f.pc = "done"
                /\ f.result = NullVal
                /\ f.err = NoError
                /\ f.state = NULLPTR
                /\ f.pattern = NULLPTR
                /\ f.alloc = "none"
                /\ f.ub = "none"
                /\ mutex_ # t
                /\ \A o \in Objs : mtx[o] # t

\* a three-argument call with a null mask_val has returned on a context
\* that was never prepared, and one with a null input on a prepared one
C9_Witness ==
    /\ th[1].pc = "done" /\ th[1].variant = 3
    /\ th[1].mask_val.is_null /\ ~th[1].key.is_null /\ ~th[1].input.is_null
    /\ slot[th[1].ctx] = NULLPTR
    /\ th[1].result = NullVal /\ th[1].err = NoError
    /\ th[2].pc = "done" /\ th[2].variant = 3
    /\ th[2].input.is_null
    /\ slot[th[2].ctx] # NULLPTR /\ deleted[slot[th[2].ctx]] = 0

(***************************************************************************)
(* C10.  A mask call on a Prepared scope with a key the catalog does not   *)
(* hold returns null, passes nothing to SetError and inserts nothing: no   *)
(* cache ever holds an entry for a key that is not in the catalog.         *)
(***************************************************************************)
C10_UnknownKeyIsSilent ==
    /\ \A t \in Threads :
           LET f == th[t]
           IN  (f.pc = "done" /\ NoNullArg(f) /\ FoundCache(f)
                    /\ f.key.s \notin CatalogKeys) =>
                   (f.result = NullVal /\ f.err = NoError
                        /\ f.pattern = NULLPTR)
    /\ \A k \in AllKeys \ CatalogKeys :
           /\ regex_map_[k] = NULLPTR
           /\ \A o \in Objs : regex_cache[o][k] = NULLPTR

\* a three-argument call with an unknown key and a one-character filler has
\* returned null on a prepared context whose cache holds no entry for it
C10_Witness ==
    /\ th[1].pc = "done" /\ th[1].variant = 3
    /\ th[1].key = StringVal("NOKEY")
    /\ ~th[1].input.is_null /\ th[1].mask_val = StringVal(<< "#" >>)
    /\ th[1].state # NULLPTR /\ th[1].ub = "none"
    /\ deleted[th[1].state] = 0
    /\ th[1].result = NullVal /\ th[1].err = NoError
    /\ regex_cache[th[1].state]["NOKEY"] = NULLPTR

(***************************************************************************)
(* Definitions for the properties of the masking engine.                   *)
(***************************************************************************)
\* the call in frame f got a matcher and a one-character filler: it ran the
\* replacement loop
RanLoop(f) ==
    /\ f.pc = "done"
    /\ NoNullArg(f)
    /\ KnownKey(f)
    /\ f.pattern # NULLPTR
    /\ Len(f.mask_val.s) = 1

\* position i of s lies inside one of the leftmost, non-overlapping matches
InSpan(re, s, i) == \E sp \in Spans(re, s, 0) : sp.lo <= i /\ i <= sp.hi

\* thread 2's call has masked the output of thread 1's call again
Remasked ==
    /\ RanLoop(th[1]) /\ ~th[1].result.is_null
    /\ RanLoop(th[2]) /\ ~th[2].result.is_null
    /\ th[2].variant = th[1].variant
    /\ th[2].key = th[1].key
    /\ th[2].mask_val = th[1].mask_val
    /\ th[2].input = th[1].result

(***************************************************************************)
(* C11.  A mask call with a catalog key and the empty input string that    *)
(* gets its matcher returns the empty string, a non-null StringVal of      *)
(* length 0, in the three-argument and in the two-argument mask, whatever  *)
(* Allocate returns for the zero-byte allocation.                          *)
(***************************************************************************)
C11_EmptyInputGivesEmptyString ==
    \A t \in Threads :
        LET f == th[t]
        IN  (RanLoop(f) /\ f.input.s = << >>) => f.result = StringVal(<< >>)

(***************************************************************************)
(* C12.  Masking is idempotent: when the output of a mask call is masked   *)
(* again with the same key and the same filler, and the filler is "*" or   *)
(* any other character that is neither a digit nor a letter, the second    *)
(* output equals the first.                                                *)
(***************************************************************************)
C12_MaskingIsIdempotent ==
    (Remasked /\ th[1].mask_val.s[1] \notin Digit \cup Alpha) =>
        th[2].result = th[1].result

(***************************************************************************)
(* C12 as amended.  The same, except that for key EMAIL the filler is also *)
(* none of ".", "_", "%", "+", "-": the characters, besides digits and     *)
(* letters, that the EMAIL pattern accepts in the local part of an         *)
(* address.                                                                *)
(***************************************************************************)
C12_IdempotentUnlessFillerIsEmailText ==
    (/\ Remasked
     /\ th[1].mask_val.s[1] \notin Digit \cup Alpha
     /\ th[1].key.s = "EMAIL" => th[1].mask_val.s[1] \notin PatternEMAIL[1].cls) =>
        th[2].result = th[1].result

\* "a@b.cc@d.ee" was masked with key EMAIL and filler "@", which left
\* "@d.ee" as it was, and masking the output again has returned the same
C12_Witness ==
    /\ Remasked
    /\ th[1].key = StringVal("EMAIL")
    /\ th[1].input = StringVal(TextTwoAts)
    /\ th[1].mask_val = StringVal(<< "@" >>)
    /\ th[1].result = StringVal(<< "@", "@", "@", "@", "@", "@",
                                   "@", "d", ".", "e", "e" >>)
    /\ th[2].result = th[1].result

(***************************************************************************)
(* C13.  Masking preserves the length and is exact in every position: the  *)
(* output of a mask call that returns a string is as long as the input,    *)
(* holds the filler at every position inside a match and the input's       *)
(* character at every other position.                                      *)
(***************************************************************************)
C13_LengthPreservingPositionExact ==
    \A t \in Threads :
        LET f == th[t]
            re == patterns[f.key.s]
        IN  (RanLoop(f) /\ ~f.result.is_null) =>
                /\ Len(f.result.s) = Len(f.input.s)
                /\ \A i \in 1 .. Len(f.input.s) :
                       IF InSpan(re, f.input.s, i)
                       THEN f.result.s[i] = f.mask_val.s[1]
                       ELSE f.result.s[i] = f.input.s[i]

\* scenario 2: "contact: a.b@example.com now" masked with key EMAIL and
\* filler "X"
C13_Witness ==
    /\ RanLoop(th[1])
    /\ th[1].variant = 3
    /\ th[1].key = StringVal("EMAIL")
    /\ th[1].input = StringVal(TextContact)
    /\ th[1].mask_val = StringVal(<< "X" >>)
    /\ th[1].result =
           StringVal(<< "c", "o", "n", "t", "a", "c", "t", ":", " ", "X",
                     "X", "X", "X", "X", "X", "X", "X", "X", "X", "X",
                     "X", "X", "X", "X", " ", "n", "o", "w" >>)

(***************************************************************************)
(* C14.  A mask call with a catalog key and a non-empty input in which the *)
(* key's pattern has no match, whose result buffer was allocated, returns  *)
(* the input unchanged: a string, not null, equal to the input character   *)
(* by character.                                                           *)
(***************************************************************************)
C14_NoMatchReturnsInput ==
    \A t \in Threads :
        LET f == th[t]
        IN  (/\ RanLoop(f)
             /\ f.alloc = "ok"
             /\ f.input.s # << >>
             /\ \A i \in 0 .. Len(f.input.s) :
                    MatchAt(patterns[f.key.s], f.input.s, i) = -1) =>
                f.result = f.input

\* "a@b.cc@d.ee" holds no match of APN or SSN: both mask variants have
\* returned it as it was
C14_Witness ==
    /\ RanLoop(th[1]) /\ th[1].variant = 2
    /\ th[1].key = StringVal("SSN")
    /\ th[1].input = StringVal(TextTwoAts)
    /\ th[1].result = StringVal(TextTwoAts)
    /\ RanLoop(th[2]) /\ th[2].result = StringVal(TextTwoAts)

(***************************************************************************)
(* C15.  While a context stays Prepared (its state is a MaskState that is  *)
(* not deleted), an entry its cache holds for a catalog key stays the same *)
(* matcher from one step to the next, and so does an entry of the static   *)
(* cache; a lookup that finds an entry returns that matcher and compiles   *)
(* nothing; and a call that works with a matcher outside the lock finds    *)
(* its cache alive and the matcher still the cache's entry.                *)
(***************************************************************************)
Prepared(c) == slot[c] # NULLPTR /\ deleted[slot[c]] = 0

C15_CompiledEntryStaysUntilTeardown ==
    /\ [][\A c \in Contexts, k \in CatalogKeys :
             (Prepared(c) /\ Prepared(c)' /\ Seen3(c)[k] # NULLPTR) =>
                 Seen3(c)'[k] = Seen3(c)[k]]_vars
    /\ [][\A k \in CatalogKeys :
             regex_map_[k] # NULLPTR => regex_map_'[k] = regex_map_[k]]_vars
    /\ [][\A t \in Threads :
             (/\ th[t].pc = "lock" /\ th'[t].pc # "lock"
              /\ FoundCache(th[t])
              /\ CacheUsedBy(th[t])[th[t].key.s] # NULLPTR) =>
                 /\ th'[t].pc = "apply"
                 /\ th'[t].pattern = CacheUsedBy(th[t])[th[t].key.s]]_vars
    /\ [](\A t \in Threads :
             LET f == th[t]
             IN  (f.pc = "apply" /\ f.pattern # NULLPTR /\ FoundCache(f)) =>
                     /\ CacheAlive(f)
                     /\ CacheUsedBy(f)[f.key.s] = f.pattern)

(***************************************************************************)
(* C16.  MaskClose with FRAGMENT_LOCAL on a context whose function state   *)
(* was never set (MaskPrepare never ran on it with FRAGMENT_LOCAL) changes *)
(* nothing: no MaskState is deleted, no call's result or error changes,    *)
(* and nothing is dereferenced.                                            *)
(***************************************************************************)
programVars == << slot, nobjs, deleted, mtx, regex_cache, regex_map_, mutex_,
                  th, calls, faults, crashed >>

C16_CloseWithoutInitIsNoOp ==
    [][\A c \in Contexts :
          (slot[c] = NULLPTR /\ MaskClose(c, FRAGMENT_LOCAL)) =>
              UNCHANGED programVars]_vars

\* the host's last hook call was MaskClose with FRAGMENT_LOCAL on ctx1, which
\* was never prepared, while ctx2 is prepared and holds a compiled APN
C16_Witness ==
    /\ lastHook = [op |-> "MaskClose", ctx |-> "ctx1",
                   scope |-> FRAGMENT_LOCAL, state |-> NULLPTR]
    /\ slot["ctx1"] = NULLPTR
    /\ ~crashed
    /\ Prepared("ctx2")
    /\ regex_cache[slot["ctx2"]]["APN"] = 1

(***************************************************************************)
(* C17.  A thread holds a cache mutex only inside the try block of its     *)
(* call: on every way out (hit, unknown key, compiled, regex_error) the    *)
(* mutex is released before the call returns; and under fair scheduling    *)
(* every call that has entered mask on a prepared context returns.         *)
(***************************************************************************)
C17_LockReleasedAndCallsComplete ==
    /\ [](\A t \in Threads :
             th[t].pc # "compile" =>
                 (mutex_ # t /\ \A o \in Objs : mtx[o] # t))
    /\ \A t \in Threads :
           (th[t].pc \in InFlightPcs) ~> (th[t].pc = "done")

\* thread 1 has left its three-argument call by the early return of the
\* catch, and thread 2, which called on the same MaskState, is at the
\* lock_guard and finds the mutex free
C17_Witness ==
    /\ th[1].pc = "done" /\ th[1].variant = 3
    /\ th[1].err = RegexError
    /\ th[2].pc = "lock" /\ th[2].variant = 3
    /\ th[2].state = th[1].state
    /\ th[1].state # NULLPTR
    /\ mtx[th[1].state] = 0

(***************************************************************************)
(* C18.  The matches a mask call visits are the leftmost-first,            *)
(* non-overlapping ones: each match is not empty, starts at or after the   *)
(* end of the match before it, and no match starts between that end and    *)
(* its start; the output differs from the input only inside these          *)
(* matches.  With key APN an input of n digits comes back with its first   *)
(* 4 * (n \div 4) digits replaced by the filler and its last n % 4 digits  *)
(* as they were; "codes 1234 5678" comes back as "codes **** ****"; and    *)
(* with key SSN "123456-1234567-1234567" comes back with only its first    *)
(* 14 characters replaced.                                                 *)
(***************************************************************************)
AllDigits(s) == \A i \in 1 .. Len(s) : s[i] \in Digit

C18_LeftmostNonOverlapping ==
    \A t \in Threads :
        LET f == th[t]
            re == patterns[f.key.s]
            s == f.input.s
            c == f.mask_val.s[1]
            n == Len(f.input.s)
            ms == MatchesFrom(re, s, IteratorBegin(re, s))
            End(j) == IF j = 0 THEN 0 ELSE ms[j].pos + ms[j].len
        IN  (RanLoop(f) /\ ~f.result.is_null) =>
                /\ \A j \in 1 .. Len(ms) :
                       /\ ms[j].len > 0
                       /\ ms[j].pos >= End(j - 1)
                       /\ \A i \in End(j - 1) .. ms[j].pos - 1 :
                              MatchAt(re, s, i) = -1
                /\ \A i \in 1 .. n :
                       (i <= Len(f.result.s) /\ f.result.s[i] # s[i]) =>
                           \E j \in 1 .. Len(ms) :
                               ms[j].pos < i /\ i <= End(j)
                /\ (f.key.s = "APN" /\ AllDigits(s)) =>
                       f.result.s = Fill(4 * (n \div 4), c)
                                        \o SubSeq(s, 4 * (n \div 4) + 1, n)
                /\ (f.key.s = "APN" /\ s = TextCodes) =>
                       f.result.s = << "c", "o", "d", "e", "s", " ",
                                       c, c, c, c, " ", c, c, c, c >>
                /\ (f.key.s = "SSN" /\ s = TextSsnChain) =>
                       f.result.s = Fill(14, c) \o SubSeq(s, 15, 22)

\* scenario 3 with the two-argument mask: "codes 1234 5678" with key APN
C18_Witness ==
    /\ RanLoop(th[1])
    /\ th[1].variant = 2
    /\ th[1].key = StringVal("APN")
    /\ th[1].input = StringVal(TextCodes)
    /\ th[1].result =
           StringVal(<< "c", "o", "d", "e", "s", " ", "*", "*", "*", "*",
                        " ", "*", "*", "*", "*" >>)

(***************************************************************************)
(* C19.  MaskPrepare and MaskClose with a scope other than FRAGMENT_LOCAL  *)
(* change nothing: no MaskState is allocated or deleted, the function      *)
(* state of every context and every cache entry stay as they are.          *)
(***************************************************************************)
C19_OtherScopesChangeNothing ==
    [][\A c \in Contexts, scope \in FunctionStateScope \ {FRAGMENT_LOCAL} :
          (MaskPrepare(c, scope) \/ MaskClose(c, scope)) =>
              UNCHANGED programVars]_vars

\* the host's last hook call was MaskClose with THREAD_LOCAL on a prepared
\* context, whose MaskState is still there with its compiled APN
C19_Witness ==
    /\ lastHook.op = "MaskClose"
    /\ lastHook.scope = THREAD_LOCAL
    /\ lastHook.state # NULLPTR
    /\ slot[lastHook.ctx] = lastHook.state
    /\ Prepared(lastHook.ctx)
    /\ regex_cache[lastHook.state]["APN"] = 1
    /\ ~crashed

=============================================================================
